---- MODULE Spec2Model ----
(***************************************************************************)
(* Model of the planning core of Eve_Region_Planner:                       *)
(*   - the capacity ledger of src/upgrade_calculator.py (UpgradeCalculator) *)
(*   - the bridge set, the range index with its cache and the greedy        *)
(*     optimizer of src/bridge_manager.py (BridgeManager).                  *)
(* Distances are carried as squared light-years (d2): the code compares and *)
(* sorts sqrt(d2), which orders pairs exactly as d2 does.  Scores are       *)
(* carried in hundredths, with the rounding of the float sum on top.        *)
(***************************************************************************)
EXTENDS Integers, Sequences, FiniteSets, TLC

(* ------------------------------ bounds --------------------------------- *)
\* longest installed-upgrade list the ledger actions build
MaxInstalled == 2

\* number of systems (nodes) of the network snapshot
NumSystems == 4

\* largest max_bridges the optimizer is called with
MaxBridgesArg == 3

\* most bridges the add_bridge action commits
MaxCommitted == 2

\* most lists the range cache holds in the range-index runs
MaxCached == 2

\* longest installed list the removal runs build
MaxListed == 3

\* systems in the networks of the metric runs
MetricNodes == 10

(* ------------------------- capacity ledger data ------------------------ *)
\* systems_capacity.csv: the systems the calculator knows, with base capacity
LedgerSystems == {"S1", "S2"}

SystemRows ==
    << [system_name |-> "S1", power_capacity |-> 2000, workforce_capacity |-> 8000],
       [system_name |-> "S2", power_capacity |-> 300,  workforce_capacity |-> 9000],
       [system_name |-> "S3", power_capacity |-> 2000, workforce_capacity |-> 20000] >>

\* sovereignty_upgrades.csv: positive delta consumes, negative delta adds
UpgradeRows ==
    << [upgrade_name |-> "Prospecting Array 1", power |-> 500,  workforce |-> 6400,  category |-> "Mining"],
       [upgrade_name |-> "Prospecting Array 2", power |-> 1350, workforce |-> 12700, category |-> "Mining"],
       [upgrade_name |-> "Prospecting Array 3", power |-> 1800, workforce |-> 18100, category |-> "Mining"],
       [upgrade_name |-> "Major Threat 1",      power |-> 400,  workforce |-> 2700,  category |-> "Ratting"],
       [upgrade_name |-> "Major Threat 2",      power |-> 900,  workforce |-> 5400,  category |-> "Ratting"],
       [upgrade_name |-> "Major Threat 3",      power |-> 1700, workforce |-> 8100,  category |-> "Ratting"],
       [upgrade_name |-> "Minor Threat 1",      power |-> 200,  workforce |-> 1000,  category |-> "Ratting"],
       [upgrade_name |-> "Minor Threat 2",      power |-> 400,  workforce |-> 2000,  category |-> "Ratting"],
       [upgrade_name |-> "Minor Threat 3",      power |-> 600,  workforce |-> 3000,  category |-> "Ratting"],
       [upgrade_name |-> "Power Monitoring Division 1", power |-> -300, workforce |-> 2500, category |-> "Strategic"],
       [upgrade_name |-> "Workforce Mecha-Tooling 1",   power |-> 200, workforce |-> -3000, category |-> "Strategic"] >>

\* df[df[column] == name].iloc[0]: the first row whose name matches
FirstRow(rows, matches) ==
    rows[CHOOSE i \in matches : \A j \in matches : i <= j]

\* upgrade names the add / remove actions are called with
UpgradeInputs ==
    {"Prospecting Array 1", "Power Monitoring Division 1", "Workforce Mecha-Tooling 1"}

\* the systems the preset runs work on: a small one and a large one
PresetSystems == {"S1", "S3"}

\* preset names apply_preset is called with; the last one is not a preset
PresetInputs == {"max_mining", "max_ratting", "balanced", "empty", "max_everything"}

VARIABLES
    system_upgrades,   \* UpgradeCalculator.system_upgrades: dict system -> list of names
    ledgerCall,        \* the last ledger call, its arguments and what it returned
    graph,             \* BridgeManager.graph: positions, constellations, stargate links
    bridges,           \* BridgeManager.bridges: the committed bridge list
    bridgeCall,        \* the last bridge-set call, its arguments and what it returned
    valid_connections_cache,   \* BridgeManager._valid_connections_cache
    optRun,            \* the last optimizer call: its arguments and the list returned
    queryCall          \* the last range or value query: its arguments and result

Abs(x) == IF x < 0 THEN -x ELSE x

(* ----------------------- UpgradeCalculator queries --------------------- *)
get_upgrade_info(upgrade_name) ==
    FirstRow(UpgradeRows,
             {i \in 1..Len(UpgradeRows) : UpgradeRows[i].upgrade_name = upgrade_name})

get_system_capacity(system_name) ==
    FirstRow(SystemRows,
             {i \in 1..Len(SystemRows) : SystemRows[i].system_name = system_name})

\* "if upgrade.empty: raise ValueError": the name has a row in the catalog
UpgradeKnown(upgrade_name) ==
    \E i \in 1..Len(UpgradeRows) : UpgradeRows[i].upgrade_name = upgrade_name

\* "if system.empty: raise ValueError": the system has a row in the capacity data
SystemKnown(system_name) ==
    \E i \in 1..Len(SystemRows) : SystemRows[i].system_name = system_name

\* self.system_upgrades.get(system_name, [])
Installed(su, system_name) ==
    IF system_name \in DOMAIN su THEN su[system_name] ELSE << >>

ZeroUsage ==
    [power_added |-> 0, workforce_added |-> 0,
     power_used |-> 0, workforce_used |-> 0, upgrades |-> << >>]

\* a bug that adds the signed delta instead of its absolute value
AddDeltas_NoAbs(acc, upgrade_name, upgrade) ==
    [power_added     |-> IF upgrade.power < 0
                         THEN acc.power_added + upgrade.power
                         ELSE acc.power_added,
     power_used      |-> IF upgrade.power < 0
                         THEN acc.power_used
                         ELSE acc.power_used + upgrade.power,
     workforce_added |-> IF upgrade.workforce < 0
                         THEN acc.workforce_added + upgrade.workforce
                         ELSE acc.workforce_added,
     workforce_used  |-> IF upgrade.workforce < 0
                         THEN acc.workforce_used
                         ELSE acc.workforce_used + upgrade.workforce,
     upgrades        |-> Append(acc.upgrades,
                                [name |-> upgrade_name, power |-> upgrade.power,
                                 workforce |-> upgrade.workforce,
                                 category |-> upgrade.category])]

\* one turn of the loop of calculate_capacity_usage, given the catalog row
AddDeltas(acc, upgrade_name, upgrade) ==
    [power_added     |-> IF upgrade.power < 0
                         THEN acc.power_added + Abs(upgrade.power)
                         ELSE acc.power_added,
     power_used      |-> IF upgrade.power < 0
                         THEN acc.power_used
                         ELSE acc.power_used + upgrade.power,
     workforce_added |-> IF upgrade.workforce < 0
                         THEN acc.workforce_added + Abs(upgrade.workforce)
                         ELSE acc.workforce_added,
     workforce_used  |-> IF upgrade.workforce < 0
                         THEN acc.workforce_used
                         ELSE acc.workforce_used + upgrade.workforce,
     upgrades        |-> Append(acc.upgrades,
                                [name |-> upgrade_name, power |-> upgrade.power,
                                 workforce |-> upgrade.workforce,
                                 category |-> upgrade.category])]

\* "for upgrade_name in installed: upgrade = self.get_upgrade_info(upgrade_name) ..."
RECURSIVE AccumulateUsage(_, _, _)
AccumulateUsage(installed, i, acc) ==
    IF i > Len(installed) THEN acc
    ELSE AccumulateUsage(installed, i + 1,
                         AddDeltas(acc, installed[i], get_upgrade_info(installed[i])))

\* the dictionary calculate_capacity_usage returns
UsageReport(base, acc) ==
    [base_power               |-> base.power_capacity,
     base_workforce           |-> base.workforce_capacity,
     power_added              |-> acc.power_added,
     workforce_added          |-> acc.workforce_added,
     power_used               |-> acc.power_used,
     workforce_used           |-> acc.workforce_used,
     power_available          |-> base.power_capacity + acc.power_added - acc.power_used,
     workforce_available      |-> base.workforce_capacity + acc.workforce_added
                                      - acc.workforce_used,
     total_power_capacity     |-> base.power_capacity + acc.power_added,
     total_workforce_capacity |-> base.workforce_capacity + acc.workforce_added,
     upgrades                 |-> acc.upgrades]

calculate_capacity_usage(su, system_name) ==
    UsageReport(get_system_capacity(system_name),
                AccumulateUsage(Installed(su, system_name), 1, ZeroUsage))

InList(x, list) == \E i \in 1..Len(list) : list[i] = x

\* calculate_capacity_usage raises ValueError: the system has no capacity row,
\* or an installed name has no catalog row
UsageRaises(su, system_name) ==
    \/ ~SystemKnown(system_name)
    \/ \E i \in 1..Len(Installed(su, system_name)) :
          ~UpgradeKnown(Installed(su, system_name)[i])

\* can_add_upgrade raises ValueError: from get_upgrade_info of the new name,
\* or from calculate_capacity_usage
CheckRaises(su, system_name, upgrade_name) ==
    ~UpgradeKnown(upgrade_name) \/ UsageRaises(su, system_name)

Verdict(ok, reason, power_remaining, workforce_remaining) ==
    [ok |-> ok, reason |-> reason,
     power_remaining |-> power_remaining,
     workforce_remaining |-> workforce_remaining]

\* a bug that forgets the workforce check
CheckConstraints_NoWorkforceCheck(power_remaining, workforce_remaining, installed) ==
    IF power_remaining < 0
    THEN Verdict(FALSE, "Insufficient power", power_remaining, workforce_remaining)
    ELSE IF installed
    THEN Verdict(FALSE, "already installed", power_remaining, workforce_remaining)
    ELSE Verdict(TRUE, "Can add", power_remaining, workforce_remaining)

\* the checks of can_add_upgrade, in the order the code makes them
CheckConstraints(power_remaining, workforce_remaining, installed) ==
    IF power_remaining < 0
    THEN Verdict(FALSE, "Insufficient power", power_remaining, workforce_remaining)
    ELSE IF workforce_remaining < 0
    THEN Verdict(FALSE, "Insufficient workforce", power_remaining, workforce_remaining)
    ELSE IF installed
    THEN Verdict(FALSE, "already installed", power_remaining, workforce_remaining)
    ELSE Verdict(TRUE, "Can add", power_remaining, workforce_remaining)

\* what is left once the upgrade's positive deltas are paid
Remaining(upgrade, usage) ==
    [power     |-> usage.power_available
                       - (IF upgrade.power > 0 THEN upgrade.power ELSE 0),
     workforce |-> usage.workforce_available
                       - (IF upgrade.workforce > 0 THEN upgrade.workforce ELSE 0)]

\* a bug that never looks whether the upgrade is installed already
CheckRemaining_NotInstalled(remaining, installed) ==
    CheckConstraints(remaining.power, remaining.workforce, FALSE)

CheckRemaining(remaining, installed) ==
    CheckConstraints(remaining.power, remaining.workforce, installed)

can_add_upgrade(su, system_name, upgrade_name) ==
    CheckRemaining(Remaining(get_upgrade_info(upgrade_name),
                             calculate_capacity_usage(su, system_name)),
                   InList(upgrade_name, Installed(su, system_name)))

(* ---------------------- UpgradeCalculator mutations -------------------- *)
\* a bug that rebuilds the dict with the one key only
SetKey_Alone(su, system_name, value) ==
    [k \in {system_name} |-> value]

\* self.system_upgrades[system_name] = value, creating the key when absent
SetKey(su, system_name, value) ==
    [k \in (DOMAIN su) \cup {system_name} |->
        IF k = system_name THEN value ELSE su[k]]

\* a bug that appends although can_add_upgrade said no
add_upgrade_IgnoresCheck(su, system_name, upgrade_name, force) ==
    [su  |-> SetKey(su, system_name,
                    Append(Installed(su, system_name), upgrade_name)),
     ret |-> force \/ can_add_upgrade(su, system_name, upgrade_name).ok,
     raised |-> FALSE]

\* returns the new ledger, the boolean the method returns, and whether the
\* call ended in the ValueError of a lookup instead of returning
add_upgrade(su, system_name, upgrade_name, force) ==
    IF ~force /\ CheckRaises(su, system_name, upgrade_name)
    THEN [su |-> su, ret |-> FALSE, raised |-> TRUE]
    ELSE IF ~force /\ ~can_add_upgrade(su, system_name, upgrade_name).ok
    THEN [su |-> su, ret |-> FALSE, raised |-> FALSE]
    ELSE [su  |-> SetKey(su, system_name,
                         Append(Installed(su, system_name), upgrade_name)),
          ret |-> TRUE, raised |-> FALSE]

\* list.remove(x): drops the first entry equal to x
RemoveAt(list, i) == SubSeq(list, 1, i - 1) \o SubSeq(list, i + 1, Len(list))

\* a bug that drops the last entry equal to x instead of the first
RemoveFirst_Last(list, x) ==
    RemoveAt(list, CHOOSE k \in 1..Len(list) :
                       list[k] = x /\ \A j \in (k + 1)..Len(list) : list[j] # x)

RemoveFirst(list, x) ==
    RemoveAt(list, CHOOSE k \in 1..Len(list) :
                       list[k] = x /\ \A j \in 1..(k - 1) : list[j] # x)

remove_upgrade(su, system_name, upgrade_name) ==
    IF system_name \notin DOMAIN su
    THEN [su |-> su, ret |-> FALSE]
    ELSE IF ~InList(upgrade_name, su[system_name])
    THEN [su |-> su, ret |-> FALSE]
    ELSE [su  |-> SetKey(su, system_name, RemoveFirst(su[system_name], upgrade_name)),
          ret |-> TRUE]

clear_system_upgrades(su, system_name) == SetKey(su, system_name, << >>)

\* "if self.add_upgrade(...): added.append(upgrade_name)"
Collect(st, upgrade_name, r) ==
    IF r.ret THEN [su |-> r.su, added |-> Append(st.added, upgrade_name)] ELSE st

\* "for level in [3, 2, 1]: if self.add_upgrade(...): added.append(...); break"
RECURSIVE TryTiers(_, _, _, _)
TryTiers(st, system_name, names, i) ==
    IF i > Len(names) THEN st
    ELSE IF add_upgrade(st.su, system_name, names[i], FALSE).ret
    THEN Collect(st, names[i], add_upgrade(st.su, system_name, names[i], FALSE))
    ELSE TryTiers(st, system_name, names, i + 1)

\* "if self.add_upgrade(...): added.append(...)" for each name in turn
RECURSIVE TryEach(_, _, _, _)
TryEach(st, system_name, names, i) ==
    IF i > Len(names) THEN st
    ELSE TryEach(Collect(st, names[i],
                         add_upgrade(st.su, system_name, names[i], FALSE)),
                 system_name, names, i + 1)

PresetDone(st) == [su |-> st.su, added |-> st.added, raised |-> FALSE]

MajorTiers == <<"Major Threat 3", "Major Threat 2", "Major Threat 1">>

MinorTiers == <<"Minor Threat 3", "Minor Threat 2", "Minor Threat 1">>

MiningTiers == <<"Prospecting Array 3", "Prospecting Array 2", "Prospecting Array 1">>

BalancedNames == <<"Prospecting Array 1", "Major Threat 1">>

\* the branches of apply_preset, entered with the system's list already cleared
PresetBranches(cleared, system_name, preset) ==
    IF preset = "max_mining"
    THEN PresetDone(TryTiers(cleared, system_name, MiningTiers, 1))
    ELSE IF preset = "max_ratting"
    THEN PresetDone(TryTiers(TryTiers(cleared, system_name, MajorTiers, 1),
                             system_name, MinorTiers, 1))
    ELSE IF preset = "balanced"
    THEN PresetDone(TryEach(cleared, system_name, BalancedNames, 1))
    ELSE IF preset = "empty"
    THEN PresetDone(cleared)
    ELSE [su |-> cleared.su, added |-> << >>, raised |-> TRUE]

\* a bug that forgets to clear the list first
apply_preset_NoClear(su, system_name, preset) ==
    PresetBranches([su |-> su, added |-> << >>], system_name, preset)

\* returns the new ledger, the list the method returns, and whether it raised
apply_preset(su, system_name, preset) ==
    PresetBranches([su |-> clear_system_upgrades(su, system_name), added |-> << >>],
                   system_name, preset)

(* --------------------------- ledger actions ---------------------------- *)
\* the figures of a usage report (everything but the itemised list)
Figures(u) ==
    [power_added |-> u.power_added, workforce_added |-> u.workforce_added,
     power_used |-> u.power_used, workforce_used |-> u.workforce_used,
     total_power_capacity |-> u.total_power_capacity,
     total_workforce_capacity |-> u.total_workforce_capacity,
     power_available |-> u.power_available,
     workforce_available |-> u.workforce_available]

NoFigures == [none |-> TRUE]

NoLedgerCall ==
    [op |-> "none", sys |-> "", arg |-> "", force |-> FALSE, ret |-> "",
     added |-> << >>, before |-> NoFigures]

Result(b) == IF b THEN "ok" ELSE "fail"

\* the ledger a call leaves behind, and the record of the call
LedgerReturn(su, call) ==
    /\ system_upgrades' = su
    /\ ledgerCall' = call
    /\ UNCHANGED <<graph, bridges, bridgeCall, valid_connections_cache, optRun,
                   queryCall>>

AddReturn(system_name, upgrade_name, force, r) ==
    LedgerReturn(r.su,
        [op |-> "add", sys |-> system_name, arg |-> upgrade_name,
         force |-> force,
         ret |-> IF r.raised THEN "ValueError" ELSE Result(r.ret),
         added |-> << >>, before |-> NoFigures])

AddUpgrade(system_name, upgrade_name, force) ==
    /\ Len(Installed(system_upgrades, system_name)) < MaxInstalled
    /\ AddReturn(system_name, upgrade_name, force,
                 add_upgrade(system_upgrades, system_name, upgrade_name, force))

\* add_upgrade(system, name, force=True), building the lists removal works on
AddForced(system_name, upgrade_name) ==
    /\ Len(Installed(system_upgrades, system_name)) < MaxListed
    /\ AddReturn(system_name, upgrade_name, TRUE,
                 add_upgrade(system_upgrades, system_name, upgrade_name, TRUE))

RemoveReturn(system_name, upgrade_name, r, before) ==
    LedgerReturn(r.su,
        [op |-> "remove", sys |-> system_name, arg |-> upgrade_name,
         force |-> FALSE, ret |-> Result(r.ret), added |-> << >>,
         before |-> IF r.ret THEN before ELSE NoFigures])

RemoveUpgrade(system_name, upgrade_name) ==
    RemoveReturn(system_name, upgrade_name,
                 remove_upgrade(system_upgrades, system_name, upgrade_name),
                 Figures(calculate_capacity_usage(system_upgrades, system_name)))

ClearSystemUpgrades(system_name) ==
    LedgerReturn(clear_system_upgrades(system_upgrades, system_name),
        [op |-> "clear", sys |-> system_name, arg |-> "",
         force |-> FALSE, ret |-> "ok", added |-> << >>,
         before |-> NoFigures])

PresetReturn(system_name, preset, r) ==
    LedgerReturn(r.su,
        [op |-> "preset", sys |-> system_name, arg |-> preset,
         force |-> FALSE,
         ret |-> IF r.raised THEN "ValueError" ELSE "ok",
         added |-> r.added, before |-> NoFigures])

ApplyPreset(system_name, preset) ==
    PresetReturn(system_name, preset,
                 apply_preset(system_upgrades, system_name, preset))

\* one call of calculate_capacity_usage(system): the ledger is only read
CalculateCapacityUsage(system_name) ==
    LedgerReturn(system_upgrades,
        [op |-> "usage", sys |-> system_name, arg |-> "", force |-> FALSE,
         ret |-> "ok", added |-> << >>,
         before |-> Figures(calculate_capacity_usage(system_upgrades, system_name))])

\* one call of can_add_upgrade(system, upgrade): the ledger is only read
CanAddUpgrade(system_name, upgrade_name) ==
    LedgerReturn(system_upgrades,
        [op |-> "can_add", sys |-> system_name, arg |-> upgrade_name,
         force |-> FALSE,
         ret |-> Result(can_add_upgrade(system_upgrades, system_name,
                                        upgrade_name).ok),
         added |-> << >>, before |-> NoFigures])

(* ------------------------- network snapshot ---------------------------- *)
\* list(self.graph.nodes()): the systems in the graph's enumeration order
Systems == 1..NumSystems

\* node coordinates x, y, z, already divided by METERS_PER_LY (light-years):
\* A-B is 3 LY, B-C exactly 5 LY, A-C beyond range
Points == << <<0, 0, 0>>, <<3, 0, 0>>, <<3, 4, 3>> >>

MAX_BRIDGE_RANGE_LY == 5

\* float('inf'): current_jumps of a pair without a stargate path
Infinity == 1000000

\* list(self.graph.nodes())[:20]
SampleSize == 20

Strategies == {"jump_savings", "coverage", "cross_constellation", "balanced"}

\* the orders in which the points A, B, C can be visited
PointOrders ==
    {order \in [1..Len(Points) -> 1..Len(Points)] :
        \A i \in 1..Len(Points), j \in 1..Len(Points) :
            i # j => order[i] # order[j]}

\* systems in enumeration order go round the points in one of these orders,
\* so that the nearest system is not always the next one
Layouts ==
    {[s \in Systems |-> order[((s - 1) % Len(Points)) + 1]] : order \in PointOrders}

\* stargate links: the chain 1-2, 2-3, ... and the ring that closes it
ChainLinks == {{i, i + 1} : i \in 1..(NumSystems - 1)}

RingLinks == ChainLinks \cup {{1, NumSystems}}

\* no stargates, the chain, the ring, the ring opened between 2 and 3, and
\* the chain with its last system cut off
LinkSets ==
    { {}, ChainLinks, RingLinks, RingLinks \ {{2, 3}},
      ChainLinks \ {{NumSystems - 1, NumSystems}} }

\* all systems in one constellation, or odd and even systems apart
ConstellationMaps ==
    { [s \in Systems |-> 1], [s \in Systems |-> 1 + (s % 2)] }

Graphs ==
    [pos : Layouts, links : LinkSets, constellation : ConstellationMaps]

(* ------------------------ distances and range -------------------------- *)
\* list(self.graph.nodes())
NodesOf(g) == DOMAIN g.pos

Square(x) == x * x

\* (distance in light-years) squared; sqrt is monotone, so comparisons and
\* the sort order of distances are those of this value
DistanceSquared(p, q) ==
    Square(q[1] - p[1]) + Square(q[2] - p[2]) + Square(q[3] - p[3])

calculate_distance_ly(g, system1, system2) ==
    DistanceSquared(Points[g.pos[system1]], Points[g.pos[system2]])

\* a bug that leaves out a system exactly at the range limit
can_bridge_connect_Strict(g, system1, system2) ==
    [can_connect |-> calculate_distance_ly(g, system1, system2)
                         < Square(MAX_BRIDGE_RANGE_LY),
     distance    |-> calculate_distance_ly(g, system1, system2)]

\* returns (can_connect, distance)
can_bridge_connect(g, system1, system2) ==
    [can_connect |-> calculate_distance_ly(g, system1, system2)
                         <= Square(MAX_BRIDGE_RANGE_LY),
     distance    |-> calculate_distance_ly(g, system1, system2)]

\* largest r in lo..hi with r * r <= n
RECURSIVE ISqrt(_, _, _)
ISqrt(n, lo, hi) ==
    IF lo >= hi THEN lo
    ELSE IF Square((lo + hi + 1) \div 2) <= n
    THEN ISqrt(n, (lo + hi + 1) \div 2, hi)
    ELSE ISqrt(n, lo, ((lo + hi + 1) \div 2) - 1)

\* round(distance, 2), in hundredths of a light-year
Round2(d2) == (ISqrt(40000 * d2, 0, 200 * d2 + 1) + 1) \div 2

(* --------------------------- range index ------------------------------- *)
\* sorted(exclude_systems)
RECURSIVE SortedSeq(_)
LeastFirst(S, least) == <<least>> \o SortedSeq(S \ {least})

SortedSeq(S) ==
    IF S = {} THEN << >>
    ELSE LeastFirst(S, CHOOSE x \in S : \A y \in S : x <= y)

\* a bug that keys the list by the size of the exclusion set, not its content
CacheKey_SizeOnly(system, exclude_systems) ==
    [system |-> system, exclude |-> <<Cardinality(exclude_systems)>>]

\* f"{system}:{','.join(sorted(exclude_systems))}", for system names that
\* hold neither ':' nor ',': different (system, exclude) give different keys
CacheKey(system, exclude_systems) ==
    [system |-> system, exclude |-> SortedSeq(exclude_systems)]

\* list.sort(key=distance) is stable: x goes behind every entry not farther
RECURSIVE InsertByDistance(_, _, _)
InsertByDistance(sorted, x, i) ==
    IF i > Len(sorted) THEN Append(sorted, x)
    ELSE IF sorted[i][2] > x[2]
    THEN SubSeq(sorted, 1, i - 1) \o <<x>> \o SubSeq(sorted, i, Len(sorted))
    ELSE InsertByDistance(sorted, x, i + 1)

RECURSIVE SortByDistance(_, _, _)
SortByDistance(list, i, sorted) ==
    IF i > Len(list) THEN sorted
    ELSE SortByDistance(list, i + 1, InsertByDistance(sorted, list[i], 1))

\* "if can_connect: valid_connections.append((other_system, distance))"
AppendIfInRange(acc, other, check) ==
    IF check.can_connect THEN Append(acc, <<other, check.distance>>) ELSE acc

\* the loop of get_valid_connections over self.graph.nodes()
RECURSIVE CollectConnections(_, _, _, _, _)
CollectConnections(g, system, exclude_systems, other, acc) ==
    IF other > Len(g.pos) THEN acc
    ELSE CollectConnections(g, system, exclude_systems, other + 1,
            IF other = system \/ other \in exclude_systems
            THEN acc
            ELSE AppendIfInRange(acc, other, can_bridge_connect(g, system, other)))

ComputeConnections(g, system, exclude_systems) ==
    SortByDistance(CollectConnections(g, system, exclude_systems, 1, << >>), 1, << >>)

\* "self._valid_connections_cache[cache_key] = ...; return valid_connections"
Stored(cache, key, valid_connections) ==
    [connections |-> valid_connections,
     cache |-> SetKey(cache, key, valid_connections)]

\* a bug that caches the list before it is sorted
StoreConnections_Unsorted(cache, g, system, exclude_systems, key) ==
    [connections |-> ComputeConnections(g, system, exclude_systems),
     cache |-> SetKey(cache, key,
                      CollectConnections(g, system, exclude_systems, 1, << >>))]

\* computes the sorted list, caches it under the key and returns it
StoreConnections(cache, g, system, exclude_systems, key) ==
    Stored(cache, key, ComputeConnections(g, system, exclude_systems))

LookupConnections(cache, g, system, exclude_systems, key) ==
    IF key \in DOMAIN cache
    THEN [connections |-> cache[key], cache |-> cache]
    ELSE StoreConnections(cache, g, system, exclude_systems, key)

\* returns the list and the cache the call leaves behind
get_valid_connections(cache, g, system, exclude_systems) ==
    LookupConnections(cache, g, system, exclude_systems,
                      CacheKey(system, exclude_systems))

(* ----------------------------- bridge set ------------------------------ *)
\* a bug that matches a bridge only in the orientation it was added in
Matches_OneWay(b, system1, system2) ==
    b.from = system1 /\ b.to = system2

Matches(b, system1, system2) ==
    \/ b.from = system1 /\ b.to = system2
    \/ b.from = system2 /\ b.to = system1

has_bridge(bs, system1, system2) ==
    \E i \in 1..Len(bs) : Matches(bs[i], system1, system2)

\* a bug that records only the 'from' endpoint as used
get_used_systems_FromOnly(bs) == {bs[i].from : i \in 1..Len(bs)}

get_used_systems(bs) ==
    {bs[i].from : i \in 1..Len(bs)} \cup {bs[i].to : i \in 1..Len(bs)}

AddResult(bs, success, reason) == [bridges |-> bs, success |-> success, reason |-> reason]

NewBridge(system1, system2, distance, active) ==
    [from |-> system1, to |-> system2,
     distance_ly |-> Round2(distance), active |-> active]

\* a bug that appends without looking at the distance check
ValidateAndAppend_NoCheck(bs, system1, system2, active, validate, check) ==
    AddResult(Append(bs, NewBridge(system1, system2, check.distance, active)),
              TRUE, "Bridge added")

\* the tail of add_bridge, once the pair is known to be new and unused
ValidateAndAppend(bs, system1, system2, active, validate, check) ==
    IF validate /\ ~check.can_connect
    THEN AddResult(bs, FALSE, "Systems too far apart")
    ELSE AddResult(Append(bs, NewBridge(system1, system2, check.distance, active)),
                   TRUE, "Bridge added")

\* returns the new bridge list with (success, message)
add_bridge(bs, g, system1, system2, active, validate) ==
    IF has_bridge(bs, system1, system2)
    THEN AddResult(bs, FALSE, "Bridge already exists")
    ELSE IF system1 \in get_used_systems(bs)
    THEN AddResult(bs, FALSE, "System1 already has a bridge")
    ELSE IF system2 \in get_used_systems(bs)
    THEN AddResult(bs, FALSE, "System2 already has a bridge")
    ELSE ValidateAndAppend(bs, system1, system2, active, validate,
                           can_bridge_connect(g, system1, system2))

KeepOthers(bs, system1, system2) ==
    SelectSeq(bs, LAMBDA b : ~Matches(b, system1, system2))

RemoveResult(kept, initial_count) ==
    IF Len(kept) < initial_count
    THEN AddResult(kept, TRUE, "Bridge removed")
    ELSE AddResult(kept, FALSE, "No bridge found")

remove_bridge(bs, system1, system2) ==
    RemoveResult(KeepOthers(bs, system1, system2), Len(bs))

\* a bug that leaves the committed bridges in place
clear_bridges_Keeps(bs) == bs

clear_bridges(bs) == << >>

(* -------------------------- bridge evaluator --------------------------- *)
Min2(a, b) == IF a <= b THEN a ELSE b

Max2(a, b) == IF a >= b THEN a ELSE b

DirectLengths(g) ==
    [a \in NodesOf(g) |-> [b \in NodesOf(g) |->
        IF a = b THEN 0
        ELSE IF {a, b} \in g.links THEN 1 ELSE Infinity]]

\* shortest paths allowed to pass through systems 1..k, for k up to
\* the number of systems; each table is tabulated (R = R) before the next one reads it
RECURSIVE Relax(_, _)
Relax(D, k) ==
    IF k > Len(D) THEN D
    ELSE Relax(CHOOSE R \in {[a \in DOMAIN D |-> [b \in DOMAIN D |->
                                Min2(D[a][b], D[a][k] + D[k][b])]]} : R = R,
               k + 1)

\* nx.shortest_path_length(self.graph, a, b) for every a, b; Infinity where
\* networkx raises NetworkXNoPath
ShortestPathLengths(g) == Relax(DirectLengths(g), 1)

NoPath(spl, a, b) == spl[a][b] >= Infinity

\* a bug that forgets the route through the bridge in the other direction
PathImproves_OneWay(spl, sys_a, sys_b, system1, system2) ==
    /\ ~NoPath(spl, sys_a, sys_b)
    /\ ~NoPath(spl, sys_a, system1)
    /\ ~NoPath(spl, sys_b, system2)
    /\ ~NoPath(spl, sys_a, system2)
    /\ ~NoPath(spl, sys_b, system1)
    /\ spl[sys_a][system1] + 1 + spl[sys_b][system2] < spl[sys_a][sys_b]

\* the body of the try block of calculate_bridge_value for one sample pair
PathImproves(spl, sys_a, sys_b, system1, system2) ==
    /\ ~NoPath(spl, sys_a, sys_b)
    /\ ~NoPath(spl, sys_a, system1)
    /\ ~NoPath(spl, sys_b, system2)
    /\ ~NoPath(spl, sys_a, system2)
    /\ ~NoPath(spl, sys_b, system1)
    /\ Min2(spl[sys_a][system1] + 1 + spl[sys_b][system2],
            spl[sys_a][system2] + 1 + spl[sys_b][system1])
           < spl[sys_a][sys_b]

sample_systems(spl) == {s \in DOMAIN spl : s <= SampleSize}

\* "for sys_a in sample_systems: for sys_b in sample_systems: if sys_a >=
\* sys_b: continue": every unordered pair of different systems once (the names
\* are compared; the test on a pair does not depend on which one comes first)
sample_pairs(spl) == {p \in sample_systems(spl) \X sample_systems(spl) : p[1] < p[2]}

ImprovedPaths(spl, system1, system2) ==
    Cardinality({p \in sample_pairs(spl) :
                    PathImproves(spl, p[1], p[2], system1, system2)})

\* a bug that forgets the max(0, ...)
JumpSavings_NoClamp(current_jumps) ==
    IF current_jumps >= Infinity THEN Infinity ELSE current_jumps - 1

\* max(0, current_jumps - 1), where inf - 1 is inf
JumpSavings(current_jumps) ==
    IF current_jumps >= Infinity THEN Infinity ELSE Max2(0, current_jumps - 1)

ValidValue(g, spl, system1, system2, distance) ==
    [valid               |-> TRUE,
     distance_ly         |-> distance,
     current_jumps       |-> spl[system1][system2],
     jump_savings        |-> JumpSavings(spl[system1][system2]),
     cross_constellation |-> g.constellation[system1] # g.constellation[system2],
     improved_paths      |-> ImprovedPaths(spl, system1, system2),
     from_constellation  |-> g.constellation[system1],
     to_constellation    |-> g.constellation[system2]]

ValueOf(g, spl, system1, system2, check) ==
    IF ~check.can_connect
    THEN [valid |-> FALSE, distance_ly |-> check.distance]
    ELSE ValidValue(g, spl, system1, system2, check.distance)

\* spl is the table of stargate path lengths of g
calculate_bridge_value(g, spl, system1, system2) ==
    ValueOf(g, spl, system1, system2, can_bridge_connect(g, system1, system2))

\* calculate_bridge_value for every pair, computed once per optimizer call
BridgeValues(g) ==
    CHOOSE values \in
        {[system1 \in NodesOf(g) |-> [system2 \in NodesOf(g) |->
             calculate_bridge_value(g, spl, system1, system2)]] :
         spl \in {ShortestPathLengths(g)}} : values = values

(* --------------------------- greedy optimizer -------------------------- *)
\* jump_savings * 0.4 + improved_paths * 0.4 + (10 or 0) * 0.2 in IEEE doubles:
\* the units in the last place by which the sum lies above the double nearest
\* to its exact value, per cross_constellation (no, yes), jump_savings 0..5
\* and improved_paths 0..21
BalancedUlps ==
    << <<
       <<0, 0, 0, 1, 0, 0, 1, 1, 0, 0, 0, 0, 1, 0, 1, 0, 0, 1, 0, 1, 0, 0>>,
       <<0, 0, 1, 0, 0, 0, 1, 0, 0, 0, 0, 1, 1, 1, 1, 0, 1, 1, 1, 0, 0, 0>>,
       <<0, 1, 0, 0, 1, 0, 0, 1, 0, 0, 0, 0, 1, 0, 0, 0, 0, 1, 0, 0, 0, 1>>,
       <<1, 0, 0, 1, 1, 0, 1, 0, 0, 1, 0, 1, 1, 0, 1, 0, 1, 0, 0, 0, 0, 1>>,
       <<0, 0, 1, 1, 0, 0, 0, 0, 1, 0, 0, 0, 0, 1, 1, 0, 0, 0, 0, 1, 0, 0>>,
       <<0, 0, 0, 0, 0, 0, 0, 1, 0, 0, 0, 0, 1, 0, 1, 0, 0, 0, 0, 1, 0, 0>> >>,
       <<
       <<0, 0, 0, 0, 0, 0, 0, 1, 0, 0, 0, 0, 1, 0, 1, 0, 0, 0, 0, 1, 0, 0>>,
       <<0, 0, 0, 0, 0, 0, 1, 0, 0, 0, 0, 1, 1, 1, 0, 0, 0, 1, 1, 0, 0, 0>>,
       <<0, 0, 0, 0, 0, 0, 0, 1, 0, 0, 0, 0, 1, 0, 0, 0, 0, 1, 0, 0, 0, 1>>,
       <<0, 0, 0, 0, 1, 0, 1, 0, 0, 1, 0, 1, 0, 0, 0, 0, 1, 0, 0, 0, 0, 1>>,
       <<0, 0, 0, 1, 0, 0, 0, 0, 1, 0, 0, 0, 0, 0, 1, 0, 0, 0, 0, 1, 0, 0>>,
       <<0, 0, 0, 0, 0, 0, 0, 1, 0, 0, 0, 0, 0, 0, 1, 0, 0, 0, 0, 1, 0, 0>> >> >>

\* the 'balanced' score: a hundred times the exact sum, plus the rounding
BalancedScore(jump_savings, improved_paths, cross_constellation) ==
    40 * jump_savings + 40 * improved_paths
        + 20 * (IF cross_constellation THEN 10 ELSE 0)
        + BalancedUlps[IF cross_constellation THEN 2 ELSE 1]
                      [jump_savings + 1][improved_paths + 1]

\* a hundred times the score of the code (the integer scores are exact);
\* inf * 0.4 is inf
Score(value, prioritize) ==
    IF prioritize = "jump_savings"
    THEN (IF value.jump_savings >= Infinity THEN Infinity ELSE 100 * value.jump_savings)
    ELSE IF prioritize = "coverage"
    THEN 100 * value.improved_paths
    ELSE IF prioritize = "cross_constellation"
    THEN 100 * value.improved_paths * (IF value.cross_constellation THEN 2 ELSE 1)
    ELSE IF value.jump_savings >= Infinity THEN Infinity
    ELSE BalancedScore(value.jump_savings, value.improved_paths,
                       value.cross_constellation)

\* a bug that starts the search at score 0, so that no pair of score 0 is taken
NoBest_Zero == [found |-> FALSE, score |-> 0, bridge |-> [none |-> TRUE]]

\* best_bridge = None, best_score = -1
NoBest == [found |-> FALSE, score |-> -100, bridge |-> [none |-> TRUE]]

\* a bug that keeps the pair of the lowest score
Better_Lowest(best, sys1, connection, value, score) ==
    IF ~best.found \/ score < best.score
    THEN [found |-> TRUE, score |-> score,
          bridge |-> [from |-> sys1, to |-> connection[1],
                      distance_ly |-> connection[2],
                      score |-> score, value |-> value]]
    ELSE best

\* "if score > best_score: best_score = score; best_bridge = {...}"
Better(best, sys1, connection, value, score) ==
    IF score > best.score
    THEN [found |-> TRUE, score |-> score,
          bridge |-> [from |-> sys1, to |-> connection[1],
                      distance_ly |-> connection[2],
                      score |-> score, value |-> value]]
    ELSE best

\* the checks on one (sys2, distance) of the connections of sys1
Consider(best, sys1, connection, used_systems, value, prioritize) ==
    IF connection[1] \in used_systems THEN best
    ELSE IF ~value.valid THEN best
    ELSE Better(best, sys1, connection, value, Score(value, prioritize))

\* "for sys2, distance in connections"
RECURSIVE ScanConnections(_, _, _, _, _, _, _)
ScanConnections(connections, j, sys1, used_systems, values, prioritize, best) ==
    IF j > Len(connections) THEN best
    ELSE ScanConnections(connections, j + 1, sys1, used_systems, values, prioritize,
             Consider(best, sys1, connections[j], used_systems,
                      values[sys1][connections[j][1]], prioritize))

ScanOne(st, sys1, used_systems, values, prioritize, r) ==
    [best  |-> ScanConnections(r.connections, 1, sys1, used_systems, values,
                               prioritize, st.best),
     cache |-> r.cache]

\* "for i, sys1 in enumerate(systems)"
RECURSIVE ScanSystems(_, _, _, _, _, _)
ScanSystems(g, sys1, used_systems, values, prioritize, st) ==
    IF sys1 > Len(g.pos) THEN st
    ELSE ScanSystems(g, sys1 + 1, used_systems, values, prioritize,
             IF sys1 \in used_systems THEN st
             ELSE ScanOne(st, sys1, used_systems, values, prioritize,
                          get_valid_connections(st.cache, g, sys1, used_systems)))

\* a bug that marks only the 'from' endpoint as used
MarkUsed_FromOnly(used_systems, bridge) == used_systems \cup {bridge.from}

\* used_systems.add(best_bridge['from']); used_systems.add(best_bridge['to'])
MarkUsed(used_systems, bridge) == used_systems \cup {bridge.from, bridge.to}

\* "for _ in range(max_bridges)": one iteration per remaining count
RECURSIVE PlaceBridges(_, _, _, _, _, _, _)
AfterScan(g, values, prioritize, remaining, placed_bridges, used_systems, st) ==
    IF st.best.found
    THEN PlaceBridges(g, values, prioritize, remaining - 1,
                      Append(placed_bridges, st.best.bridge),
                      MarkUsed(used_systems, st.best.bridge), st.cache)
    ELSE [placed |-> placed_bridges, cache |-> st.cache]

PlaceBridges(g, values, prioritize, remaining, placed_bridges, used_systems, cache) ==
    IF remaining <= 0
    THEN [placed |-> placed_bridges, cache |-> cache]
    ELSE AfterScan(g, values, prioritize, remaining, placed_bridges, used_systems,
                   ScanSystems(g, 1, used_systems, values, prioritize,
                               [best |-> NoBest, cache |-> cache]))

\* returns the placed list and the cache the call leaves behind
optimize_bridge_placement_greedy(cache, g, values, max_bridges, prioritize) ==
    PlaceBridges(g, values, prioritize, max_bridges, << >>, {}, cache)

(* --------------------------- system metrics ---------------------------- *)
\* nx.betweenness_centrality(self.graph, k=10): the number of sampled sources
BetweennessSample == 10

\* top_n of rank_systems_for_bridges
TopN == 20

MetricNames == {"centrality", "betweenness", "connections", "cross_constellation"}

\* the nodes one stargate beyond the frontier that were not reached before
NextFrontier(g, seen, frontier) ==
    {y \in NodesOf(g) \ (seen \cup frontier) :
        \E x \in frontier : {x, y} \in g.links}

\* single_source_shortest_path_length summed up: how many nodes the source
\* reaches (itself included) and the total of their distances
RECURSIVE SumLevels(_, _, _, _, _)
SumLevels(g, seen, frontier, d, totsp) ==
    IF frontier = {} THEN [reached |-> Cardinality(seen), totsp |-> totsp]
    ELSE SumLevels(g, seen \cup frontier, NextFrontier(g, seen, frontier),
                   d + 1, totsp + d * Cardinality(frontier))

\* nx.closeness_centrality with wf_improved, as the fraction num / den:
\* ((reached - 1) / totsp) * ((reached - 1) / (len(G) - 1)), 0.0 for a node
\* that reaches nothing
Closeness(sp, len_G) ==
    IF sp.totsp > 0 /\ len_G > 1
    THEN [num |-> (sp.reached - 1) * (sp.reached - 1), den |-> sp.totsp * (len_G - 1)]
    ELSE [num |-> 0, den |-> 1]

closeness_centrality(g, system) ==
    Closeness(SumLevels(g, {}, {system}, 0, 0), Cardinality(NodesOf(g)))

\* the constellations, other than the system's own, among its connections
ReachableConstellations(g, system, valid_connections) ==
    {g.constellation[valid_connections[i][1]] : i \in 1..Len(valid_connections)}
        \ {g.constellation[system]}

\* the dictionary calculate_system_metrics returns, with the cache its call
\* of get_valid_connections leaves behind; betweenness_centrality is an
\* estimate from a random sample of sources and is not recorded
MetricsOf(g, system, r) ==
    [raised  |-> FALSE,
     cache   |-> r.cache,
     metrics |-> [system |-> system,
                  closeness_centrality |-> closeness_centrality(g, system),
                  stargate_degree |-> Cardinality({l \in g.links : system \in l}),
                  bridge_connections |-> Len(r.connections),
                  cross_constellation_bridges |->
                      Cardinality(ReachableConstellations(g, system, r.connections)),
                  constellation |-> g.constellation[system]]]

NoMetrics == [system |-> 0]

\* the only failure of calculate_system_metrics on a graph that is set:
\* sampling k sources out of fewer than k nodes raises ValueError
calculate_system_metrics(cache, g, system) ==
    IF BetweennessSample > Cardinality(NodesOf(g))
    THEN [raised |-> TRUE, cache |-> cache, metrics |-> NoMetrics]
    ELSE MetricsOf(g, system, get_valid_connections(cache, g, system, {}))

\* "for system in systems: metrics = self.calculate_system_metrics(system)":
\* the cache after the loop and whether a call raised
RECURSIVE MetricsLoop(_, _, _)
LoopStep(r, g, system) ==
    IF r.raised THEN [raised |-> TRUE, cache |-> r.cache]
    ELSE MetricsLoop(r.cache, g, system + 1)

MetricsLoop(cache, g, system) ==
    IF system > Len(g.pos) THEN [raised |-> FALSE, cache |-> cache]
    ELSE LoopStep(calculate_system_metrics(cache, g, system), g, system)

Ranking(loop, count) ==
    [raised |-> loop.raised, cache |-> loop.cache,
     count |-> IF loop.raised THEN 0 ELSE count]

\* returns how many (system, score) pairs the ranking holds, scores[:top_n],
\* and the cache the call leaves behind; an unknown metric raises ValueError
\* before any system is looked at
rank_systems_for_bridges(cache, g, metric, top_n) ==
    IF metric # "composite" /\ metric \notin MetricNames
    THEN [raised |-> TRUE, cache |-> cache, count |-> 0]
    ELSE Ranking(MetricsLoop(cache, g, 1),
                 IF top_n < Len(g.pos) THEN top_n ELSE Len(g.pos))

(* -------------------------- bridge actions ----------------------------- *)
NoBridgeCall == [op |-> "none", ret |-> "", reason |-> ""]

\* from_cache: the call found every list it asked for in the cache
NoOptRun ==
    [ran |-> FALSE, max_bridges |-> 0, prioritize |-> "", placed |-> << >>,
     from_cache |-> FALSE]

BridgeReturn(op, r) ==
    /\ bridges' = r.bridges
    /\ bridgeCall' = [op |-> op, ret |-> Result(r.success), reason |-> r.reason]
    /\ UNCHANGED <<graph, valid_connections_cache, optRun, queryCall,
                   system_upgrades, ledgerCall>>

AddBridge(system1, system2, validate) ==
    \E r \in {add_bridge(bridges, graph, system1, system2, TRUE, validate)} :
        /\ Len(r.bridges) <= MaxCommitted
        /\ BridgeReturn("add", r)

RemoveBridge(system1, system2) ==
    BridgeReturn("remove", remove_bridge(bridges, system1, system2))

ClearBridges ==
    BridgeReturn("clear", AddResult(clear_bridges(bridges), TRUE, ""))

\* "for bridge in optimal_bridges: manager.add_bridge(bridge['from'],
\* bridge['to'], validate=False)"; success is whether every add succeeded
RECURSIVE CommitAll(_, _, _, _, _)
CommitAll(bs, g, placed, i, success) ==
    IF i > Len(placed) THEN AddResult(bs, success, "")
    ELSE CommitAll(add_bridge(bs, g, placed[i].from, placed[i].to, TRUE, FALSE).bridges,
                   g, placed, i + 1,
                   success /\ add_bridge(bs, g, placed[i].from, placed[i].to,
                                         TRUE, FALSE).success)

\* clear_bridges() followed by the commit loop over the optimizer's list
CommitPlaced ==
    /\ optRun.ran
    /\ \E r \in {CommitAll(clear_bridges(bridges), graph, optRun.placed, 1, TRUE)} :
          /\ bridges' = r.bridges
          /\ bridgeCall' = [op |-> "commit", ret |-> Result(r.success), reason |-> "",
                            placed |-> optRun.placed]
    /\ UNCHANGED <<graph, valid_connections_cache, optRun, queryCall,
                   system_upgrades, ledgerCall>>

OptReturn(max_bridges, prioritize, r) ==
    /\ valid_connections_cache' = r.cache
    /\ optRun' = [ran |-> TRUE, max_bridges |-> max_bridges,
                  prioritize |-> prioritize, placed |-> r.placed,
                  from_cache |-> valid_connections_cache # << >>
                                     /\ r.cache = valid_connections_cache]
    /\ UNCHANGED <<graph, bridges, bridgeCall, queryCall, system_upgrades, ledgerCall>>

\* one call of optimize_bridge_placement_greedy, with any arguments
Optimize ==
    \E values \in {BridgeValues(graph)} :
        \E max_bridges \in 0..MaxBridgesArg, prioritize \in Strategies :
            OptReturn(max_bridges, prioritize,
                      optimize_bridge_placement_greedy(valid_connections_cache, graph,
                          values, max_bridges, prioritize))

(* --------------------------- query actions ----------------------------- *)
NoValue == [valid |-> FALSE, distance_ly |-> 0]

NoQueryCall ==
    [op |-> "none", system1 |-> 0, system2 |-> 0, exclude |-> {}, hit |-> FALSE,
     connections |-> << >>, value |-> NoValue]

\* the exclusion sets the range index is asked with
ExcludeInputs == {{}, {1}, {2}, {1, 2}}

\* networks without stargates, all systems in one constellation
FlatGraphs ==
    {g \in Graphs : g.links = {} /\ g.constellation = [s \in Systems |-> 1]}

RangeReturn(system, exclude_systems, r) ==
    /\ Cardinality(DOMAIN r.cache) <= MaxCached
    /\ valid_connections_cache' = r.cache
    /\ queryCall' = [op |-> "get_valid_connections", system1 |-> system,
                     system2 |-> 0, exclude |-> exclude_systems,
                     hit |-> r.cache = valid_connections_cache,
                     connections |-> r.connections, value |-> NoValue]
    /\ UNCHANGED <<graph, bridges, bridgeCall, optRun, system_upgrades, ledgerCall>>

\* one call of get_valid_connections(system, exclude_systems)
GetValidConnections(system, exclude_systems) ==
    RangeReturn(system, exclude_systems,
                get_valid_connections(valid_connections_cache, graph,
                                      system, exclude_systems))

\* set_graph(g): "self.graph = graph; self._valid_connections_cache.clear()"
set_graph(cache, g) == [graph |-> g, cache |-> << >>]

SetGraphReturn(r) ==
    /\ graph' = r.graph
    /\ valid_connections_cache' = r.cache
    /\ queryCall' = [NoQueryCall EXCEPT !.op = "set_graph"]
    /\ UNCHANGED <<bridges, bridgeCall, optRun, system_upgrades, ledgerCall>>

SetGraph(g) == SetGraphReturn(set_graph(valid_connections_cache, g))

ValueReturn(system1, system2, value) ==
    /\ queryCall' = [op |-> "calculate_bridge_value", system1 |-> system1,
                     system2 |-> system2, exclude |-> {}, hit |-> FALSE,
                     connections |-> << >>, value |-> value]
    /\ UNCHANGED <<graph, valid_connections_cache, bridges, bridgeCall, optRun,
                   system_upgrades, ledgerCall>>

\* one call of calculate_bridge_value(system1, system2)
CalculateBridgeValue(system1, system2) ==
    \E spl \in {ShortestPathLengths(graph)} :
        ValueReturn(system1, system2,
                    calculate_bridge_value(graph, spl, system1, system2))

MetricsReturn(op, system, metric, r, value) ==
    /\ valid_connections_cache' = r.cache
    /\ queryCall' = [op |-> op, system1 |-> system, system2 |-> 0, exclude |-> {},
                     hit |-> FALSE, connections |-> << >>, metric |-> metric,
                     value |-> value]
    /\ UNCHANGED <<graph, bridges, bridgeCall, optRun, system_upgrades, ledgerCall>>

\* one call of calculate_system_metrics(system)
CalculateSystemMetrics(system) ==
    \E r \in {calculate_system_metrics(valid_connections_cache, graph, system)} :
        /\ \/ r.cache = valid_connections_cache
           \/ Cardinality(DOMAIN r.cache) <= MaxCached
        /\ MetricsReturn("calculate_system_metrics", system, "", r,
                         [raised |-> r.raised, metrics |-> r.metrics])

\* one call of rank_systems_for_bridges(metric)
RankSystemsForBridges(metric) ==
    \E r \in {rank_systems_for_bridges(valid_connections_cache, graph, metric, TopN)} :
        MetricsReturn("rank_systems_for_bridges", 0, metric, r,
                      [raised |-> r.raised, count |-> r.count])

vars ==
    <<system_upgrades, ledgerCall, graph, bridges, bridgeCall,
      valid_connections_cache, optRun, queryCall>>

\* the network without stargates, all systems at the first point
EmptyNetwork ==
    [pos |-> [s \in Systems |-> 1], links |-> {}, constellation |-> [s \in Systems |-> 1]]

\* UpgradeCalculator() and BridgeManager(graph) right after construction
InitManager ==
    /\ bridges = << >>
    /\ bridgeCall = NoBridgeCall
    /\ valid_connections_cache = << >>
    /\ optRun = NoOptRun
    /\ queryCall = NoQueryCall

InitCalculator ==
    /\ system_upgrades = << >>
    /\ ledgerCall = NoLedgerCall

InitLedger ==
    /\ InitCalculator
    /\ InitManager
    /\ graph = EmptyNetwork

\* the bridge set over networks of every layout
InitBridges ==
    /\ InitCalculator
    /\ InitManager
    /\ graph \in FlatGraphs

NextBridges ==
    \/ \E s1 \in Systems, s2 \in Systems, v \in BOOLEAN : AddBridge(s1, s2, v)
    \/ \E s1 \in Systems, s2 \in Systems : RemoveBridge(s1, s2)
    \/ ClearBridges

SpecBridges == InitBridges /\ [][NextBridges]_vars

\* the optimizer over every network of the family
InitOptimizer ==
    /\ InitCalculator
    /\ InitManager
    /\ graph \in Graphs

NextOptimizer == Optimize

SpecOptimizer == InitOptimizer /\ [][NextOptimizer]_vars

\* optimizer runs, each list committed or not
NextCommit == Optimize \/ CommitPlaced

\* the networks without stargates and those linked in a chain
InitCommit ==
    /\ InitCalculator
    /\ InitManager
    /\ graph \in {g \in Graphs : g.links \in {{}, ChainLinks}}

SpecCommit == InitCommit /\ [][NextCommit]_vars

\* the range index under queries and network changes
InitRangeIndex ==
    /\ InitCalculator
    /\ InitManager
    /\ graph \in FlatGraphs

NextRangeIndex ==
    \/ \E system \in Systems, exclude_systems \in ExcludeInputs :
           GetValidConnections(system, exclude_systems)
    \/ \E g \in FlatGraphs : SetGraph(g)

SpecRangeIndex == InitRangeIndex /\ [][NextRangeIndex]_vars

\* the bridge evaluator over every network of the family
InitEvaluator ==
    /\ InitCalculator
    /\ InitManager
    /\ graph \in Graphs

NextEvaluator ==
    \E system1 \in Systems, system2 \in Systems :
        CalculateBridgeValue(system1, system2)

SpecEvaluator == InitEvaluator /\ [][NextEvaluator]_vars

\* stargate links of the metric networks: the ring, the ring opened once
\* (a chain), the ring opened twice (two components), and no stargates
MetricRing == {{i, i + 1} : i \in 1..(MetricNodes - 1)} \cup {{1, MetricNodes}}

MetricLinkSets ==
    { MetricRing, MetricRing \ {{1, 2}}, MetricRing \ {{1, 2}, {5, 6}}, {} }

MetricGraphs ==
    [pos : {[s \in 1..MetricNodes |-> order[((s - 1) % Len(Points)) + 1]] :
                order \in {<<1, 2, 3>>, <<2, 3, 1>>}},
     links : MetricLinkSets,
     constellation : {[s \in 1..MetricNodes |-> 1],
                      [s \in 1..MetricNodes |-> 1 + (s % 2)]}]

\* metrics asked for on networks large enough for the betweenness sample
InitMetrics ==
    /\ InitCalculator
    /\ InitManager
    /\ graph \in MetricGraphs

NextMetrics ==
    \/ \E system \in 1..MetricNodes : CalculateSystemMetrics(system)
    \/ \E metric \in MetricNames \cup {"composite", "degree"} :
           RankSystemsForBridges(metric)

SpecMetrics == InitMetrics /\ [][NextMetrics]_vars

\* a six-system network with two constellations: systems 2, 4, 6 at point A,
\* 5 at B, 1 and 3 at C, and the stargates below
TieLinks == {{1, 5}, {2, 4}, {2, 6}, {3, 5}, {5, 6}}

\* that network, the same with one stargate missing, and each of these with
\* all systems in one constellation or with the points A and C swapped
TieGraphs ==
    [pos : {<<3, 1, 3, 1, 2, 1>>, <<1, 3, 1, 3, 2, 3>>},
     links : {TieLinks} \cup {TieLinks \ {l} : l \in TieLinks},
     constellation : {<<1, 2, 2, 1, 2, 2>>, <<1, 1, 1, 1, 1, 1>>}]

\* the optimizer on the six-system networks
InitTies ==
    /\ InitCalculator
    /\ InitManager
    /\ graph \in TieGraphs

SpecTies == InitTies /\ [][NextOptimizer]_vars

\* presets applied to ledgers built by adds, forced or not
NextPresets ==
    \/ \E s \in PresetSystems, u \in UpgradeInputs, f \in BOOLEAN : AddUpgrade(s, u, f)
    \/ \E s \in PresetSystems, p \in PresetInputs : ApplyPreset(s, p)

SpecPresets == InitLedger /\ [][NextPresets]_vars

\* upgrade names the removal runs add and remove
RemoveInputs == {"Prospecting Array 1", "Power Monitoring Division 1"}

\* removals from lists that can hold the same upgrade more than once
NextRemovals ==
    \/ \E s \in LedgerSystems, u \in RemoveInputs : AddForced(s, u)
    \/ \E s \in LedgerSystems, u \in RemoveInputs : RemoveUpgrade(s, u)

SpecRemovals == InitLedger /\ [][NextRemovals]_vars

\* systems and upgrade names the lookup runs add with: the last of each has
\* no row in the data
LookupSystems == {"S1", "S9"}

LookupInputs == {"Prospecting Array 1", "Power Monitoring Division 1", "Warp Array 1"}

\* adds, forced or not, with names the data files may not hold
NextLookups ==
    \E s \in LookupSystems, u \in LookupInputs, f \in BOOLEAN : AddUpgrade(s, u, f)

SpecLookups == InitLedger /\ [][NextLookups]_vars

\* the ledger under every mutation and both queries
NextLedgerQueries ==
    \/ \E s \in LedgerSystems, u \in UpgradeInputs, f \in BOOLEAN : AddUpgrade(s, u, f)
    \/ \E s \in LedgerSystems, u \in UpgradeInputs : RemoveUpgrade(s, u)
    \/ \E s \in LedgerSystems : ClearSystemUpgrades(s)
    \/ \E s \in LedgerSystems, p \in PresetInputs : ApplyPreset(s, p)
    \/ \E s \in LedgerSystems : CalculateCapacityUsage(s)
    \/ \E s \in LedgerSystems, u \in UpgradeInputs : CanAddUpgrade(s, u)

SpecLedgerQueries == InitLedger /\ [][NextLedgerQueries]_vars

NextLedger ==
    \/ \E s \in LedgerSystems, u \in UpgradeInputs, f \in BOOLEAN : AddUpgrade(s, u, f)
    \/ \E s \in LedgerSystems, u \in UpgradeInputs : RemoveUpgrade(s, u)
    \/ \E s \in LedgerSystems : ClearSystemUpgrades(s)
    \/ \E s \in LedgerSystems, p \in PresetInputs : ApplyPreset(s, p)

SpecLedger == InitLedger /\ [][NextLedger]_vars

\* the ledger driven through validated calls only: add is never forced
NextLedgerNoForce ==
    \/ \E s \in LedgerSystems, u \in UpgradeInputs : AddUpgrade(s, u, FALSE)
    \/ \E s \in LedgerSystems, u \in UpgradeInputs : RemoveUpgrade(s, u)
    \/ \E s \in LedgerSystems : ClearSystemUpgrades(s)
    \/ \E s \in LedgerSystems, p \in PresetInputs : ApplyPreset(s, p)

SpecLedgerNoForce == InitLedger /\ [][NextLedgerNoForce]_vars

(* ----------------------- properties of the ledger ---------------------- *)
Usage(s) == calculate_capacity_usage(system_upgrades, s)

\* C3: after every committed ledger mutation the available power and the
\* available workforce of every system are >= 0.
C3_AvailableNeverNegative ==
    \A s \in LedgerSystems :
        /\ Usage(s).power_available >= 0
        /\ Usage(s).workforce_available >= 0

RECURSIVE SumIdx(_, _)
SumIdx(S, F) ==
    IF S = {} THEN 0
    ELSE LET i == CHOOSE j \in S : TRUE IN F[i] + SumIdx(S \ {i}, F)

\* C4: usage reports added = sum of |delta| over installed upgrades with
\* delta < 0, used = sum of delta over those with delta > 0, total = base +
\* added and available = base + added - used, for power and for workforce;
\* base 2000 with one +500 and one -300 upgrade gives 300 / 500 / 2300 / 1800.
C4_UsageFigures ==
    \A s \in LedgerSystems :
        LET u    == Usage(s)
            inst == Installed(system_upgrades, s)
            idx  == 1..Len(inst)
            P    == [i \in idx |-> get_upgrade_info(inst[i]).power]
            W    == [i \in idx |-> get_upgrade_info(inst[i]).workforce]
            base == get_system_capacity(s)
        IN  /\ u.power_added = SumIdx({i \in idx : P[i] < 0}, [i \in idx |-> 0 - P[i]])
            /\ u.power_used = SumIdx({i \in idx : P[i] > 0}, P)
            /\ u.workforce_added = SumIdx({i \in idx : W[i] < 0}, [i \in idx |-> 0 - W[i]])
            /\ u.workforce_used = SumIdx({i \in idx : W[i] > 0}, W)
            /\ u.total_power_capacity = base.power_capacity + u.power_added
            /\ u.total_workforce_capacity = base.workforce_capacity + u.workforce_added
            /\ u.power_available = base.power_capacity + u.power_added - u.power_used
            /\ u.workforce_available =
                   base.workforce_capacity + u.workforce_added - u.workforce_used
            /\ (base.power_capacity = 2000 /\ Len(inst) = 2
                 /\ {P[i] : i \in idx} = {500, -300})
                => /\ u.power_added = 300
                   /\ u.power_used = 500
                   /\ u.total_power_capacity = 2300
                   /\ u.power_available = 1800

C4_Witness ==
    /\ ledgerCall.op = "add"
    /\ Installed(system_upgrades, "S1") =
           <<"Prospecting Array 1", "Power Monitoring Division 1">>

\* what usage would report with the upgrade appended to the installed list
HypotheticalUsage(s, u) ==
    calculate_capacity_usage(
        SetKey(system_upgrades, s, Append(Installed(system_upgrades, s), u)), s)

\* C5: canAdd rejects exactly when the upgrade is already installed or the
\* available power or workforce, recomputed with the upgrade installed, would
\* be negative; it accepts in every other state.
C5_CanAddExact ==
    \A s \in LedgerSystems, u \in UpgradeInputs :
        can_add_upgrade(system_upgrades, s, u).ok
        <=> ~ \/ InList(u, Installed(system_upgrades, s))
              \/ HypotheticalUsage(s, u).power_available < 0
              \/ HypotheticalUsage(s, u).workforce_available < 0

\* C6: a non-forced add appends the upgrade exactly when canAdd accepts in the
\* same state; when canAdd rejects, add returns failure and the ledger is
\* unchanged.
C6_AddIffCanAdd ==
    [][(ledgerCall'.op = "add" /\ ~ledgerCall'.force) =>
         IF can_add_upgrade(system_upgrades, ledgerCall'.sys, ledgerCall'.arg).ok
         THEN /\ ledgerCall'.ret = "ok"
              /\ system_upgrades' =
                     SetKey(system_upgrades, ledgerCall'.sys,
                            Append(Installed(system_upgrades, ledgerCall'.sys),
                                   ledgerCall'.arg))
         ELSE /\ ledgerCall'.ret = "fail"
              /\ system_upgrades' = system_upgrades]_vars

C6_Witness ==
    /\ ledgerCall.op = "add"
    /\ ~ledgerCall.force
    /\ ledgerCall.ret = "fail"
    /\ Len(Installed(system_upgrades, ledgerCall.sys)) > 0

\* C7: after an add that returned success without force, the system's
\* available power and available workforce are both >= 0.
C7_SuccessfulAddNonNegative ==
    (ledgerCall.op = "add" /\ ~ledgerCall.force /\ ledgerCall.ret = "ok")
    => /\ Usage(ledgerCall.sys).power_available >= 0
       /\ Usage(ledgerCall.sys).workforce_available >= 0

C7_Witness ==
    /\ ledgerCall.op = "add"
    /\ ~ledgerCall.force
    /\ ledgerCall.ret = "ok"
    /\ Len(Installed(system_upgrades, ledgerCall.sys)) = 2
    /\ Usage(ledgerCall.sys).workforce_available < 3000

\* C8: canAdd never rejects an upgrade for insufficient power when its power
\* delta is <= 0, nor for insufficient workforce when its workforce delta
\* is <= 0.
C8_AdderNeverBlocked ==
    \A s \in LedgerSystems, u \in UpgradeInputs :
        LET r == can_add_upgrade(system_upgrades, s, u) IN
        /\ get_upgrade_info(u).power <= 0 => r.reason # "Insufficient power"
        /\ get_upgrade_info(u).workforce <= 0 => r.reason # "Insufficient workforce"

\* C9: remove(system, upgrade) followed immediately by a non-forced
\* add(system, upgrade) restores the usage figures reported before the remove.
C9_RemoveThenAddRestores ==
    [][(/\ ledgerCall.op = "remove" /\ ledgerCall.ret = "ok"
        /\ ledgerCall'.op = "add" /\ ~ledgerCall'.force
        /\ ledgerCall'.sys = ledgerCall.sys
        /\ ledgerCall'.arg = ledgerCall.arg)
       => Figures(calculate_capacity_usage(system_upgrades', ledgerCall.sys))
              = ledgerCall.before]_vars

(* ------------------- properties of the bridge network ------------------ *)
Endpoints(b) == {b.from, b.to}

\* no system is an endpoint of two different entries of the list
Exclusive(list) ==
    \A i \in 1..Len(list), j \in 1..Len(list) :
        i # j => Endpoints(list[i]) \cap Endpoints(list[j]) = {}

\* C1: after any sequence of add_bridge (validate on or off), remove_bridge
\* and clear_bridges calls on an empty bridge set, no system is an endpoint
\* of two different bridges of the committed set.
C1_CommittedExclusive == Exclusive(bridges)

\* two bridges are committed and a further add was turned down because one
\* of its systems is taken
C1_Witness ==
    /\ Len(bridges) >= 2
    /\ bridgeCall.op = "add"
    /\ bridgeCall.reason \in {"System1 already has a bridge",
                              "System2 already has a bridge"}

\* C2: in the list returned by optimize_bridge_placement_greedy, for every
\* graph, strategy and max_bridges, each bridge has two distinct endpoints
\* and no system is an endpoint of more than one returned bridge.
C2_PlacedExclusive ==
    /\ \A i \in 1..Len(optRun.placed) : optRun.placed[i].from # optRun.placed[i].to
    /\ Exclusive(optRun.placed)

\* a run that placed two bridges
C2_Witness == optRun.ran /\ Len(optRun.placed) >= 2

\* what a manager constructed on the graph returns for the arguments of the
\* last run
FreshRun ==
    CHOOSE placed \in
        {optimize_bridge_placement_greedy(<< >>, graph, values,
                                          optRun.max_bridges, optRun.prioritize).placed :
         values \in {BridgeValues(graph)}} : TRUE

\* C10: a run of optimize_bridge_placement_greedy, whatever runs came before
\* it on the same manager (its lists then come from the range cache), returns
\* the bridges, in the order and with the scores, that a run on a fresh
\* manager returns for the same graph, max_bridges and strategy.
C10_RunsAgree == optRun.ran => optRun.placed = FreshRun

\* a run served entirely from the cache that placed two bridges
C10_Witness == optRun.ran /\ optRun.from_cache /\ Len(optRun.placed) >= 2

\* the most pairs of systems within bridge range of each other that can be
\* chosen from 'free' without using a system twice
RECURSIVE MatchingSize(_, _)
LargestOf(S) == CHOOSE x \in S : \A y \in S : y <= x

MatchingSize(g, free) ==
    IF free = {} THEN 0
    ELSE LargestOf(
            {MatchingSize(g, free \ {s}) : s \in {LargestOf(free)}}
            \cup {1 + MatchingSize(g, free \ {s, t}) :
                      s \in {LargestOf(free)},
                      t \in {u \in free \ {LargestOf(free)} :
                                calculate_distance_ly(g, LargestOf(free), u)
                                    <= Square(MAX_BRIDGE_RANGE_LY)}})

\* C11: on a network whose largest set of pairwise endpoint-disjoint in-range
\* pairs has size K, the optimizer called with max_bridges > K returns
\* exactly K bridges, under every strategy.
C11_ReturnsLargestMatching ==
    (optRun.ran /\ optRun.max_bridges > MatchingSize(graph, Systems))
        => Len(optRun.placed) = MatchingSize(graph, Systems)

\* C12: every bridge of the committed set, after any sequence of add_bridge
\* calls with any validate flag, connects two systems no farther apart than
\* MAX_BRIDGE_RANGE_LY, and its stored distance (hundredths of a light-year)
\* does not exceed that range.
C12_CommittedWithinRange ==
    \A i \in 1..Len(bridges) :
        /\ calculate_distance_ly(graph, bridges[i].from, bridges[i].to)
               <= Square(MAX_BRIDGE_RANGE_LY)
        /\ bridges[i].distance_ly <= 100 * MAX_BRIDGE_RANGE_LY

(* -------------------- properties of the range index -------------------- *)
\* the systems get_valid_connections(system, exclude) has to list
InRangeOf(g, system, exclude_systems) ==
    {other \in Systems \ ({system} \cup exclude_systems) :
        calculate_distance_ly(g, system, other) <= Square(MAX_BRIDGE_RANGE_LY)}

ListsExactly(g, system, exclude_systems, list) ==
    /\ {list[i][1] : i \in 1..Len(list)} = InRangeOf(g, system, exclude_systems)
    /\ Len(list) = Cardinality(InRangeOf(g, system, exclude_systems))
    /\ \A i \in 1..Len(list) :
           list[i][2] = calculate_distance_ly(g, system, list[i][1])
    /\ \A i \in 1..Len(list), j \in 1..Len(list) :
           i < j => list[i][2] <= list[j][2]

\* C13: get_valid_connections(system, exclude) returns exactly the systems
\* other than 'system', not in 'exclude' and at most MAX_BRIDGE_RANGE_LY away,
\* each once, with its distance, in ascending order of distance; a system
\* exactly at the range limit is listed.
C13_ListsInRangeAscending ==
    queryCall.op = "get_valid_connections"
        => ListsExactly(graph, queryCall.system1, queryCall.exclude,
                        queryCall.connections)

\* a computed list that holds a system exactly at the limit, leaves out an
\* excluded system that is in range, and is not in enumeration order
C13_Witness ==
    /\ queryCall.op = "get_valid_connections"
    /\ ~queryCall.hit
    /\ \E i \in 1..Len(queryCall.connections) :
           queryCall.connections[i][2] = Square(MAX_BRIDGE_RANGE_LY)
    /\ \E e \in queryCall.exclude :
           /\ e # queryCall.system1
           /\ calculate_distance_ly(graph, queryCall.system1, e)
                  <= Square(MAX_BRIDGE_RANGE_LY)
    /\ \E i \in 1..Len(queryCall.connections), j \in 1..Len(queryCall.connections) :
           i < j /\ queryCall.connections[i][1] > queryCall.connections[j][1]

\* C14: whatever set_graph and get_valid_connections calls came before, the
\* list a call returns is the list computed without a cache for the current
\* graph, the system and the exclusion set of the call.
C14_CacheTransparent ==
    queryCall.op = "get_valid_connections"
        => queryCall.connections
               = ComputeConnections(graph, queryCall.system1, queryCall.exclude)

\* a list served from the cache while the cache also holds, for the same
\* system, a different list under another exclusion set of the same size
C14_Witness ==
    /\ queryCall.op = "get_valid_connections"
    /\ queryCall.hit
    /\ \E key \in DOMAIN valid_connections_cache :
           /\ key.system = queryCall.system1
           /\ Len(key.exclude) = Cardinality(queryCall.exclude)
           /\ valid_connections_cache[key] # queryCall.connections

(* ------------------ properties of the bridge evaluator ----------------- *)
\* the systems one stargate jump or less away from a system of S
Neighbours(links, S) ==
    S \cup {y \in Systems : \E x \in S : x # y /\ {x, y} \in links}

\* the number of jumps after which b is first reached from 'reached'
RECURSIVE Hops(_, _, _, _)
Hops(links, reached, b, k) ==
    IF b \in reached THEN k
    ELSE IF Neighbours(links, reached) = reached THEN Infinity
    ELSE Hops(links, Neighbours(links, reached), b, k + 1)

\* length of the shortest stargate path from a to b, Infinity if there is none
PathLength(links, a, b) == Hops(links, {a}, b, 0)

InRange(g, system1, system2) ==
    calculate_distance_ly(g, system1, system2) <= Square(MAX_BRIDGE_RANGE_LY)

\* C15: for every pair within bridge range calculate_bridge_value returns a
\* valid result whose current_jumps is the length of the shortest stargate
\* path and whose jump_savings is max(0, current_jumps - 1), never negative;
\* without a stargate path the result is still valid and both carry the
\* unreachable value.
C15_JumpSavings ==
    (/\ queryCall.op = "calculate_bridge_value"
     /\ InRange(graph, queryCall.system1, queryCall.system2))
    => \A jumps \in {PathLength(graph.links, queryCall.system1, queryCall.system2)} :
          /\ queryCall.value.valid
          /\ queryCall.value.current_jumps = jumps
          /\ queryCall.value.jump_savings >= 0
          /\ queryCall.value.jump_savings =
                 (IF jumps = Infinity THEN Infinity
                  ELSE IF jumps >= 1 THEN jumps - 1 ELSE 0)

\* an in-range pair three jumps apart: jump_savings 2
C15_Witness ==
    /\ queryCall.op = "calculate_bridge_value"
    /\ queryCall.value.valid
    /\ queryCall.value.current_jumps = 3
    /\ queryCall.value.jump_savings = 2

\* the pairs of different systems among the first SampleSize of the graph
\* that have a stargate path, shortened by the edge system1 - system2
Shortened(links, system1, system2) ==
    {p \in Systems \X Systems :
        /\ p[1] < p[2] /\ p[2] <= SampleSize
        /\ PathLength(links, p[1], p[2]) < Infinity
        /\ PathLength(links \cup {{system1, system2}}, p[1], p[2])
               < PathLength(links, p[1], p[2])}

\* C16: for a valid pair, improved_paths is the number of unordered pairs
\* among the first SampleSize systems that have a stargate path whose
\* shortest length becomes strictly smaller when the edge system1 - system2
\* is added; pairs without a stargate path are not counted.
C16_ImprovedPaths ==
    (queryCall.op = "calculate_bridge_value" /\ queryCall.value.valid)
    => queryCall.value.improved_paths
           = Cardinality(Shortened(graph.links, queryCall.system1, queryCall.system2))

\* a bridge that shortens a path on a network where some pair of systems
\* has no stargate path
C16_Witness ==
    /\ queryCall.op = "calculate_bridge_value"
    /\ queryCall.value.valid
    /\ queryCall.value.improved_paths >= 1
    /\ \E a \in Systems, b \in Systems : PathLength(graph.links, a, b) = Infinity

(* ----------------------- properties of the presets --------------------- *)
FirstOf(group, accepted) ==
    IF accepted = {} THEN << >>
    ELSE <<group[CHOOSE i \in accepted : \A j \in accepted : i <= j]>>

\* the first name of the group that can_add_upgrade accepts, if any, on a
\* system whose list is 'picked'
FirstAccepted(system_name, picked, group) ==
    FirstOf(group,
            {i \in 1..Len(group) :
                can_add_upgrade(SetKey(<< >>, system_name, picked),
                                system_name, group[i]).ok})

\* group after group, starting from the empty list
RECURSIVE PickedFrom(_, _, _, _)
PickedFrom(system_name, groups, k, picked) ==
    IF k > Len(groups) THEN picked
    ELSE PickedFrom(system_name, groups, k + 1,
                    picked \o FirstAccepted(system_name, picked, groups[k]))

PresetYields(groups) ==
    (ledgerCall.op = "preset" /\ ledgerCall.ret = "ok")
    => /\ ledgerCall.added = PickedFrom(ledgerCall.sys, groups, 1, << >>)
       /\ Installed(system_upgrades, ledgerCall.sys) = ledgerCall.added

\* every tier group of a preset, tiers 3, 2, 1
GroupsAllTiers(preset) ==
    IF preset = "max_mining" THEN <<MiningTiers>>
    ELSE IF preset = "max_ratting" THEN <<MajorTiers, MinorTiers>>
    ELSE IF preset = "balanced" THEN <<MiningTiers, MajorTiers>>
    ELSE << >>

\* the same, with 'balanced' trying tier 1 only
GroupsTried(preset) ==
    IF preset = "balanced"
    THEN << <<"Prospecting Array 1">>, <<"Major Threat 1">> >>
    ELSE GroupsAllTiers(preset)

\* C17 as stated: apply_preset with a known preset empties the list, then for
\* each tier group of the preset adds the highest of tiers 3, 2, 1 that a
\* non-forced add accepts; the installed list is the returned list.
C17_HighestTierOfEachGroup == PresetYields(GroupsAllTiers(ledgerCall.arg))

\* C17 amended: as stated for max_mining and max_ratting; 'balanced' tries
\* only "Prospecting Array 1" and then "Major Threat 1", each once; 'empty'
\* adds nothing. The installed list is exactly the returned list.
C17_PresetAdds == PresetYields(GroupsTried(ledgerCall.arg))

\* max_ratting on a list that held something: the Major group took tier 3,
\* the Minor group fell back to tier 1
C17_Witness ==
    /\ ledgerCall.op = "preset" /\ ledgerCall.arg = "max_ratting"
    /\ ledgerCall.added = <<"Major Threat 3", "Minor Threat 1">>

\* C18: apply_preset with a name that is not a known preset ends in a
\* reported error and leaves the system's installed list as it was before
\* the call.
C18_UnknownPresetKeepsList ==
    [][(ledgerCall'.op = "preset" /\ ledgerCall'.ret = "ValueError")
          => Installed(system_upgrades', ledgerCall'.sys)
                 = Installed(system_upgrades, ledgerCall'.sys)]_vars

\* new is old without its entry at position k, every other entry in place
DropsEntry(old, new, k) ==
    /\ Len(new) = Len(old) - 1
    /\ \A i \in 1..(k - 1) : new[i] = old[i]
    /\ \A i \in k..Len(new) : new[i] = old[i + 1]

\* position of the first entry of list equal to x
FirstMatch(list, x, k) ==
    /\ k \in 1..Len(list)
    /\ list[k] = x
    /\ \A j \in 1..(k - 1) : list[j] # x

\* the other systems' lists are untouched
OthersKept(old, new, system_name) ==
    /\ DOMAIN new = DOMAIN old
    /\ \A k \in DOMAIN old : k # system_name => new[k] = old[k]

RemoveOutcome(old, new, system_name, upgrade_name, ret) ==
    IF system_name \in DOMAIN old /\ InList(upgrade_name, old[system_name])
    THEN /\ ret = "ok"
         /\ OthersKept(old, new, system_name)
         /\ \E k \in 1..Len(old[system_name]) :
               /\ FirstMatch(old[system_name], upgrade_name, k)
               /\ DropsEntry(old[system_name], new[system_name], k)
    ELSE ret = "fail" /\ new = old

\* C19: remove_upgrade on a system whose list holds the upgrade deletes
\* exactly the first matching entry and keeps the order of all the others;
\* when the system has no list or the upgrade is absent it reports failure
\* and the ledger is unchanged.
C19_RemoveFirstMatch ==
    [][ledgerCall'.op = "remove"
          => RemoveOutcome(system_upgrades, system_upgrades',
                           ledgerCall'.sys, ledgerCall'.arg, ledgerCall'.ret)]_vars

\* a removal that left a later copy of the removed upgrade behind another entry
C19_Witness ==
    /\ ledgerCall.op = "remove" /\ ledgerCall.ret = "ok"
    /\ ledgerCall.sys = "S1" /\ ledgerCall.arg = "Prospecting Array 1"
    /\ Installed(system_upgrades, "S1")
           = <<"Power Monitoring Division 1", "Prospecting Array 1">>

\* every key of the ledger and every name in its lists has a row in the data
NoUnknownStored(su) ==
    \A k \in DOMAIN su :
        SystemKnown(k) /\ \A i \in 1..Len(su[k]) : UpgradeKnown(su[k][i])

\* C20: add_upgrade with a system that is not in the capacity data or an
\* upgrade name that is not in the catalog fails with an unknown-entity error
\* and leaves the ledger unchanged, forced or not; no unknown name is ever
\* stored in the ledger.
C20_UnknownNamesRejected ==
    [][ledgerCall'.op = "add"
          => /\ (~SystemKnown(ledgerCall'.sys) \/ ~UpgradeKnown(ledgerCall'.arg))
                   => /\ ledgerCall'.ret = "ValueError"
                      /\ system_upgrades' = system_upgrades
             /\ NoUnknownStored(system_upgrades')]_vars

(* ------------------ further properties of the bridge set --------------- *)
\* the three conditions add_bridge has to turn down
PairBridged(bs, system1, system2) ==
    \E i \in 1..Len(bs) :
        Endpoints(bs[i]) = {system1, system2}
            /\ (system1 = system2 => bs[i].from = bs[i].to)

EndpointTaken(bs, system1, system2) ==
    \E i \in 1..Len(bs) : Endpoints(bs[i]) \cap {system1, system2} # {}

TooFar(g, system1, system2) ==
    calculate_distance_ly(g, system1, system2) > Square(MAX_BRIDGE_RANGE_LY)

MustReject(bs, g, system1, system2, validate) ==
    \/ PairBridged(bs, system1, system2)
    \/ EndpointTaken(bs, system1, system2)
    \/ validate /\ TooFar(g, system1, system2)

\* the call failed with a reason and returned the set it was given
Rejected(bs, r) ==
    /\ ~r.success
    /\ r.reason # ""
    /\ r.bridges = bs

\* C21: in every reachable bridge set, add_bridge on a pair that already has
\* a bridge (in either orientation), on a pair with an endpoint used by
\* another bridge, or with validate on and a distance above
\* MAX_BRIDGE_RANGE_LY, returns a failure with a reason and leaves the
\* committed bridge set unchanged.
C21_RejectsWithReason ==
    \A s1 \in Systems, s2 \in Systems, v \in BOOLEAN :
        MustReject(bridges, graph, s1, s2, v)
            => Rejected(bridges, add_bridge(bridges, graph, s1, s2, TRUE, v))

\* a validated add was turned down for distance while a bridge is committed
C21_Witness ==
    /\ bridgeCall.op = "add" /\ bridgeCall.ret = "fail"
    /\ bridgeCall.reason = "Systems too far apart"
    /\ Len(bridges) >= 1

(* ------------------ properties of the system metrics ------------------- *)
\* the nodes joined to a node of S by stargate paths
RECURSIVE Component(_, _)
Component(g, S) ==
    IF NextFrontier(g, {}, S) = {} THEN S
    ELSE Component(g, S \cup NextFrontier(g, {}, S))

IsConnected(g) == Component(g, {1}) = NodesOf(g)

\* C22: when the stargate graph is not connected, a request for a system's
\* metrics or for a ranking ends in a reported failure instead of returning
\* values computed on the disconnected graph.
C22_DisconnectedReported ==
    (/\ queryCall.op \in {"calculate_system_metrics", "rank_systems_for_bridges"}
     /\ queryCall.metric \in {"", "composite"}
     /\ ~IsConnected(graph))
        => queryCall.value.raised

(* ------------------ further properties of the optimizer ---------------- *)
\* the systems used by the bridges placed before the k-th
UsedBefore(placed, k) == UNION {Endpoints(placed[i]) : i \in 1..(k - 1)}

\* the ordered pairs of different unused systems within bridge range
Candidates(g, used) ==
    {p \in (NodesOf(g) \ used) \X (NodesOf(g) \ used) :
        p[1] # p[2] /\ InRange(g, p[1], p[2])}

\* a hundred times the score the strategies are described by, in exact
\* arithmetic
StatedScore(value, prioritize) ==
    IF prioritize = "jump_savings"
    THEN (IF value.jump_savings >= Infinity THEN Infinity ELSE 100 * value.jump_savings)
    ELSE IF prioritize = "coverage"
    THEN 100 * value.improved_paths
    ELSE IF prioritize = "cross_constellation"
    THEN (IF value.cross_constellation THEN 200 ELSE 100) * value.improved_paths
    ELSE IF value.jump_savings >= Infinity THEN Infinity
    ELSE 40 * value.jump_savings + 40 * value.improved_paths
             + (IF value.cross_constellation THEN 200 ELSE 0)

\* q is met before p: an earlier first endpoint, or the same first endpoint
\* and a nearer partner
MetBefore(g, q, p) ==
    \/ q[1] < p[1]
    \/ /\ q[1] = p[1]
       /\ calculate_distance_ly(g, q[1], q[2]) < calculate_distance_ly(g, p[1], p[2])

\* p is a candidate of maximum score, and the first met among those
BestFirst(g, values, prioritize, candidates, p) ==
    /\ p \in candidates
    /\ \A q \in candidates :
          /\ StatedScore(values[q[1]][q[2]], prioritize)
                 <= StatedScore(values[p[1]][p[2]], prioritize)
          /\ StatedScore(values[q[1]][q[2]], prioritize)
                 = StatedScore(values[p[1]][p[2]], prioritize)
                => ~MetBefore(g, q, p)

\* C23: in each iteration of the optimizer the bridge appended is a pair of
\* unused systems within range of each other whose score under the chosen
\* strategy is the maximum over all such pairs, and among the pairs of that
\* score the first met when first endpoints go in graph order and partners
\* in ascending distance.
C23_AppendsBestFirstMet ==
    optRun.ran =>
        \A values \in {BridgeValues(graph)} :
            \A k \in 1..Len(optRun.placed) :
                BestFirst(graph, values, optRun.prioritize,
                          Candidates(graph, UsedBefore(optRun.placed, k)),
                          <<optRun.placed[k].from, optRun.placed[k].to>>)

\* C24: the optimizer returns at most max_bridges bridges, and whenever it
\* returns fewer, no two different systems that are both absent from the
\* returned bridges are within bridge range of each other: it stops early
\* only when no legal pair is left, also when every remaining pair scores 0.
C24_StopsOnlyWhenExhausted ==
    optRun.ran =>
        /\ Len(optRun.placed) <= optRun.max_bridges
        /\ Len(optRun.placed) < optRun.max_bridges
              => Candidates(graph, UsedBefore(optRun.placed,
                                              Len(optRun.placed) + 1)) = {}

\* a run that stopped early after placing a bridge of score 0, with two
\* systems left over
C24_Witness ==
    /\ optRun.ran
    /\ Len(optRun.placed) = 1 /\ optRun.max_bridges > 1
    /\ optRun.placed[1].score = 0
    /\ Cardinality(NodesOf(graph) \ Endpoints(optRun.placed[1])) >= 2

\* C25: in the list returned by optimize_bridge_placement_greedy the scores
\* are non-increasing in list order, for every graph and every strategy.
C25_ScoresNonIncreasing ==
    optRun.ran =>
        \A k \in 1..(Len(optRun.placed) - 1) :
            optRun.placed[k + 1].score <= optRun.placed[k].score

\* a run whose second bridge scores strictly less than its first
C25_Witness ==
    /\ optRun.ran
    /\ Len(optRun.placed) >= 2
    /\ optRun.placed[2].score < optRun.placed[1].score

\* C26: after clear_bridges, committing the bridges returned by the optimizer
\* one by one with add_bridge in list order succeeds for every bridge: the
\* committed set ends with as many bridges as the optimizer returned, with
\* the same endpoint pairs.
C26_CommitSucceeds ==
    bridgeCall.op = "commit" =>
        /\ bridgeCall.ret = "ok"
        /\ Len(bridges) = Len(bridgeCall.placed)
        /\ \A i \in 1..Len(bridges) :
              /\ bridges[i].from = bridgeCall.placed[i].from
              /\ bridges[i].to = bridgeCall.placed[i].to

\* a list of two bridges was committed
C26_Witness ==
    /\ bridgeCall.op = "commit"
    /\ Len(bridgeCall.placed) = 2
    /\ Len(bridges) = 2

\* C27: every bridge of the committed set has two distinct endpoints:
\* add_bridge(s, s) is rejected for every system s and never adds a bridge
\* from a system to itself.
C27_NoSelfBridge ==
    \A i \in 1..Len(bridges) : bridges[i].from # bridges[i].to

\* what an add_bridge(a, b) that succeeded must allow from the other side
UndoneFrom(before, r, a, b) ==
    r.success
        => /\ has_bridge(r.bridges, b, a)
           /\ remove_bridge(r.bridges, b, a).success
           /\ remove_bridge(r.bridges, b, a).bridges = before

\* C28: bridges are unordered: in every reachable bridge set, after a
\* successful add_bridge(a, b),
\* has_bridge(b, a) is true and remove_bridge(b, a) succeeds and restores the
\* committed set to what it was before the add; remove_bridge on a pair with
\* no bridge reports failure and leaves the set unchanged.
C28_AddRemoveUnordered ==
    /\ \A a \in Systems, b \in Systems, v \in BOOLEAN :
          UndoneFrom(bridges, add_bridge(bridges, graph, a, b, TRUE, v), a, b)
    /\ \A a \in Systems, b \in Systems :
          ~PairBridged(bridges, a, b)
              => Rejected(bridges, remove_bridge(bridges, a, b))

\* a bridge was removed from a set that holds another one
C28_Witness ==
    /\ bridgeCall.op = "remove" /\ bridgeCall.ret = "ok"
    /\ Len(bridges) >= 1

(* ------------------- further properties of the ledger ------------------ *)
NoDuplicates(list) ==
    \A i \in 1..Len(list), j \in 1..Len(list) : i # j => list[i] # list[j]

\* C29: starting from the empty ledger, any sequence of non-forced
\* add_upgrade, remove_upgrade, clear_system_upgrades and apply_preset calls
\* keeps every system's installed list free of duplicate upgrade names.
C29_NoDuplicateUpgrades ==
    \A k \in DOMAIN system_upgrades : NoDuplicates(system_upgrades[k])

\* a second add of an installed upgrade was turned down although power and
\* workforce would have allowed it
C29_Witness ==
    /\ ledgerCall.op = "add" /\ ledgerCall.ret = "fail"
    /\ InList(ledgerCall.arg, Installed(system_upgrades, ledgerCall.sys))
    /\ can_add_upgrade(system_upgrades, ledgerCall.sys, ledgerCall.arg).reason
           = "already installed"

\* every list but that of system_name is what it was, and no other system
\* got an entry
OnlyTouches(old, new, system_name) ==
    /\ \A k \in DOMAIN old : k # system_name => k \in DOMAIN new /\ new[k] = old[k]
    /\ \A k \in DOMAIN new : k # system_name => k \in DOMAIN old

\* C30: ledger operations are local: add_upgrade, remove_upgrade,
\* clear_system_upgrades and apply_preset on a system leave the installed
\* list of every other system unchanged, and calculate_capacity_usage and
\* can_add_upgrade change no installed list and create no entry.
C30_LedgerOperationsLocal ==
    [][/\ OnlyTouches(system_upgrades, system_upgrades', ledgerCall'.sys)
       /\ ledgerCall'.op \in {"usage", "can_add"}
             => system_upgrades' = system_upgrades]_vars

\* a query on a system without an entry, while the other system has upgrades
C30_Witness ==
    /\ ledgerCall.op \in {"usage", "can_add"}
    /\ ledgerCall.sys \notin DOMAIN system_upgrades
    /\ \E k \in DOMAIN system_upgrades : Len(system_upgrades[k]) >= 1

====
